---- MODULE Spec2Model ----
(***************************************************************************)
(* The chunked batch-processing strategies of the `ticket` management      *)
(* command (app/management/commands/ticket.py): the paginated token        *)
(* regeneration with its checkpoint file (regenerate_tokens_v3), the       *)
(* cursor-based regeneration (regenerate_tokens_v2), the chunked insert    *)
(* (insert_tickets_v2) and the three one-shot strategies, started by       *)
(* handle() one invocation after another against the same Ticket table     *)
(* and the same ./error.log.                                               *)
(*                                                                         *)
(* Texts (the contents of the checkpoint file) are sequences of            *)
(* one-character strings.  Times are whole seconds.  Tokens are told      *)
(* apart only by their origin: 0 is a token a Ticket got from the field    *)
(* default when it was created, 1 is a token assigned by a regeneration.   *)
(***************************************************************************)
EXTENDS Integers, Sequences, FiniteSets, TLC

\* ------------------------------------------------------------------ bounds
MaxN == 3          \* records in the table at the start: 0..MaxN
MaxPerPage == 2    \* window sizes tried: 1..MaxPerPage (1000 in the source)
MaxRuns == 3       \* invocations of the command in one behaviour
MaxStore == 4      \* the chunked insert is started only if the table stays this small
split_parts == 2   \* windows of one chunked insert (1000 in the source, line 98)
naive_count == 2   \* records of one insert_tickets (1000000 in the source, line 90)
BigTook == 1000000 \* a very slow window, in seconds

\* the sentinel display_remain_time starts from (lines 97, 139, 188)
InitialDisplay == 999999

\* per-window elapsed times (timeit.default_timer() differences)
Elapsed == {1, BigTook}

Max(a, b) == IF a >= b THEN a ELSE b
Min(a, b) == IF a <= b THEN a ELSE b

\* ------------------------------------------------------- str() and int()
DigitChars == <<"0", "1", "2", "3", "4", "5", "6", "7", "8", "9">>
Whitespace == {" ", "\n"}

IsDigit(c) == \E d \in 1..10 : DigitChars[d] = c
DigitVal(c) == (CHOOSE d \in 1..10 : DigitChars[d] = c) - 1

RECURSIVE NatStr(_)
NatStr(n) == IF n < 10 THEN <<DigitChars[n + 1]>>
             ELSE NatStr(n \div 10) \o <<DigitChars[(n % 10) + 1]>>

\* str(current_page) of line 247: decimal, "-" for a negative number
Str(n) == IF n < 0 THEN <<"-">> \o NatStr(-n) ELSE NatStr(n)

RECURSIVE Strip(_)
Strip(s) == IF s = <<>> THEN s
            ELSE IF Head(s) \in Whitespace THEN Strip(Tail(s))
            ELSE IF s[Len(s)] \in Whitespace THEN Strip(SubSeq(s, 1, Len(s) - 1))
            ELSE s

RECURSIVE DigitsVal(_)
DigitsVal(s) == IF s = <<>> THEN 0
                ELSE DigitsVal(SubSeq(s, 1, Len(s) - 1)) * 10 + DigitVal(s[Len(s)])

\* a parser that reads the leading digits and gives 0 when there are none
ParseLeadingDigits(s) == [ok |-> TRUE, val |-> 0]

\* int(number) of line 195: surrounding whitespace is dropped, one optional
\* sign, then at least one digit and nothing else; anything else is a
\* ValueError (ok = FALSE)
ParseInt(s) ==
    LET t == Strip(s)
        signed == t # <<>> /\ Head(t) \in {"+", "-"}
        d == IF signed THEN Tail(t) ELSE t
        ok == d # <<>> /\ \A k \in 1..Len(d) : IsDigit(d[k])
    IN  [ok |-> ok,
         val |-> IF ~ok THEN 0
                 ELSE IF signed /\ Head(t) = "-" THEN 0 - DigitsVal(d)
                 ELSE DigitsVal(d)]

\* ------------------------------------------------------------- Paginator
\* the page count of a paginator that does not allow an empty first page
NumPagesNoEmptyFirst(count, pp) == (count + pp - 1) \div pp

\* Paginator(tickets, per_page).num_pages with the defaults orphans = 0 and
\* allow_empty_first_page = True: ceil(max(1, count) / per_page)
num_pages(count, pp) == (Max(1, count) + pp - 1) \div pp

\* a slice that starts one record early
PageOverlap(rows, n, pp) ==
    SubSeq(rows, Max(1, (n - 1) * pp), Min(n * pp, Len(rows)))

\* paginator.page(n).object_list: the slice [(n-1)*per_page, n*per_page) of
\* the table ordered by id (Ticket.Meta.ordering)
object_list(rows, n, pp) ==
    SubSeq(rows, (n - 1) * pp + 1, Min(n * pp, Len(rows)))

\* paginator.page(n) raises EmptyPage for n < 1 and for n > num_pages (page 1
\* of an empty table excepted)
page_raises(count, n, pp) ==
    \/ n < 1
    \/ n > num_pages(count, pp) /\ n # 1

\* ------------------------------------------------------------------ state
VARIABLES
    store,                \* the Ticket table, ordered by id: <<[id, token]>>
    next_id,              \* the id the table gives to the next new row
    file,                 \* ./error.log: [exists, text]
    per_page,             \* the window size (1000 in the source)
    runs,                 \* invocations started so far
    strategy,             \* the strategy of the current or last invocation
    several,              \* more than one flag was given to that invocation
    exit_status,          \* of the last invocation that ended: -1 none yet
    summary,              \* that invocation printed the memory and time totals
    state,                \* Idle, Running, Completed, Interrupted
    pc,                   \* position inside the invocation
    number,               \* the text read from the checkpoint file
    current_page,
    total_pages,
    total,                \* Ticket.objects.count() of regenerate_tokens_v2
    i,                    \* the loop variable of the window loop
    page,                 \* page.object_list of the window being processed
    chunk,                \* the records awaiting the bulk write
    display_remain_time,
    \* ---- what each invocation did (observation only)
    startFile,            \* the checkpoint file when the invocation started
    fetched,              \* page numbers fetched, in order
    batches,              \* bulk_update calls: <<[page, ids]>>, in order
    lines,                \* progress lines: <<[raw, remain, num, den]>>
    cancelled,            \* a cancellation was delivered to this invocation
    swallowed,            \* ... and the bare except of line 200 passed over it
    fault,                \* where the except clause of line 243 caught
    \* ---- observation over the whole behaviour
    initFile,             \* the checkpoint file at the very start
    inserted,             \* TRUE once records were added to the table
    deleted,              \* TRUE once records were removed from the table
    donePages,            \* pages the paginated strategy has written
    interruptions         \* invocations that ended Interrupted

config == <<per_page, initFile>>
locals == <<number, current_page, total_pages, total, i, page, chunk,
           display_remain_time>>
observed == <<startFile, fetched, batches, lines, cancelled, swallowed,
             fault>>
table == <<store, next_id>>
outcome == <<exit_status, summary>>
vars == <<table, file, runs, strategy, several, outcome, state, pc, locals,
          observed, config, inserted, deleted, donePages, interruptions>>

Absent == [exists |-> FALSE, text |-> <<>>]
Holding(t) == [exists |-> TRUE, text |-> t]
NoFault == [pc |-> "none", page |-> 0]

\* checkpoint files an operator may find or leave before the first run
InitFiles == {Absent, Holding(<<"x">>), Holding(<<"0">>),
              Holding(<<"-", "1">>), Holding(<<"2", "\n">>),
              Holding(<<"1", "0">>)}

Rows(n) == [k \in 1..n |-> [id |-> k, token |-> 0]]

Init ==
    /\ \E n \in 0..MaxN : store = Rows(n) /\ next_id = n + 1
    /\ file \in InitFiles
    /\ per_page \in 1..MaxPerPage
    /\ runs = 0
    /\ strategy = "none"
    /\ several = FALSE
    /\ exit_status = -1
    /\ summary = FALSE
    /\ state = "Idle"
    /\ pc = "Idle"
    /\ number = <<>>
    /\ current_page = 1
    /\ total_pages = 0
    /\ total = 0
    /\ i = 0
    /\ page = <<>>
    /\ chunk = <<>>
    /\ display_remain_time = InitialDisplay
    /\ startFile = file
    /\ fetched = <<>>
    /\ batches = <<>>
    /\ lines = <<>>
    /\ cancelled = FALSE
    /\ swallowed = FALSE
    /\ fault = NoFault
    /\ initFile = file
    /\ inserted = FALSE
    /\ deleted = FALSE
    /\ donePages = {}
    /\ interruptions = 0

\* ----------------------------------------------------------------- handle
\* the ids a to b, in order
FromTo(a, b) == [k \in 1..(b - a + 1) |-> a + k - 1]

\* add_arguments(), lines 14-50: six store_true flags, none required and
\* none excluding another
Flags == {"delete", "insert", "insert2", "regenerate", "regenerate2",
          "regenerate3"}

\* the order of the if / elif chain of lines 55-71
FlagOrder == <<"delete", "insert", "insert2", "regenerate", "regenerate2",
               "regenerate3">>

Strategies == {FlagOrder[k] : k \in 1..Len(FlagOrder)}

\* lines 55-71: the first branch of the chain whose flag is set; no branch
\* when no flag is set
Selected(options) ==
    IF options = {} THEN "none"
    ELSE FlagOrder[CHOOSE k \in 1..Len(FlagOrder) :
                       /\ FlagOrder[k] \in options
                       /\ \A j \in 1..(k - 1) : FlagOrder[j] \notin options]

\* what the chain does with each of the 64 combinations of the flags: the
\* strategy it starts, and whether more than one flag was given
Dispatches ==
    {[strategy |-> Selected(options), several |-> Cardinality(options) > 1] :
         options \in SUBSET Flags}

\* a dispatch that hands the cursor-based flag to the paginated strategy
FirstPcCrossed(s) == IF s = "regenerate2" THEN "v3_open" ELSE "return"

FirstPc(s) == CASE s = "delete" -> "delete_tickets"
                [] s = "insert" -> "insert_tickets"
                [] s = "insert2" -> "ins_loop"
                [] s = "regenerate" -> "regenerate_tokens"
                [] s = "regenerate2" -> "v2_setup"
                [] s = "regenerate3" -> "v3_open"
                [] s = "none" -> "return"

\* the rows a strategy adds to the table, all of them
Grows(s) == CASE s = "insert" -> naive_count
              [] s = "insert2" -> split_parts * per_page
              [] OTHER -> 0

\* the values the locals of a strategy have before it has assigned them
\* (lines 186-188 for regenerate_tokens_v3), and once its frame is gone
NoLocals ==
    /\ number' = <<>>
    /\ current_page' = 1
    /\ total_pages' = 0
    /\ total' = 0
    /\ i' = 0
    /\ page' = <<>>
    /\ chunk' = <<>>
    /\ display_remain_time' = InitialDisplay

\* handle(), lines 52-71: the strategy of the first flag that is set is
\* started; the strategy's locals get their initial values (lines 186-188
\* for regenerate_tokens_v3). With no flag set every branch is skipped.
\* memory_usage(f) is taken to call f once and to let what f raises pass.
Invoke ==
    /\ pc = "Idle"
    /\ runs < MaxRuns
    /\ \E d \in Dispatches :
        /\ Len(store) + Grows(d.strategy) <= MaxStore
        /\ strategy' = d.strategy
        /\ several' = d.several
        /\ pc' = FirstPc(d.strategy)
    /\ runs' = runs + 1
    /\ state' = "Running"
    /\ exit_status' = -1
    /\ summary' = FALSE
    /\ NoLocals
    /\ startFile' = file
    /\ fetched' = <<>>
    /\ batches' = <<>>
    /\ lines' = <<>>
    /\ cancelled' = FALSE
    /\ swallowed' = FALSE
    /\ fault' = NoFault
    /\ UNCHANGED <<table, file, config, inserted, deleted, donePages,
                   interruptions>>

\* handle(), lines 73-78: the strategy has returned normally and its locals
\* are gone; "Memory usage"
\* and, in the SUCCESS style, "Took" are printed and the command ends with
\* status 0. When no branch of the chain ran, memory was never assigned and
\* line 73 raises UnboundLocalError: nothing is printed, the status is 1.
Report ==
    /\ pc = "return"
    /\ pc' = "Idle"
    /\ IF strategy = "none"
       THEN /\ summary' = FALSE
            /\ exit_status' = 1
            /\ state' = "Aborted"
       ELSE /\ summary' = TRUE
            /\ exit_status' = 0
            /\ state' = state
    /\ NoLocals
    /\ UNCHANGED <<table, file, runs, strategy, several, observed, config,
                   inserted, deleted, donePages, interruptions>>

\* lines 80-180 have no try statement, and neither has handle(): an exception
\* or a KeyboardInterrupt raised inside one of these strategies leaves the
\* strategy and handle() at once, and the command ends with a traceback and
\* status 1, whatever the exception is
PropagatingPcs == {"delete_tickets", "insert_tickets", "regenerate_tokens",
                   "ins_loop", "ins_create", "ins_progress",
                   "v2_setup", "v2_next", "v2_flush", "v2_progress", "v2_tail"}

propagate ==
    /\ pc \in PropagatingPcs
    /\ fault' = [pc |-> "propagated", page |-> 0]
    /\ state' = "Aborted"
    /\ summary' = FALSE
    /\ exit_status' = 1
    /\ pc' = "Idle"
    /\ NoLocals
    /\ UNCHANGED <<table, file, runs, strategy, several, startFile, fetched,
                   batches, lines, cancelled, swallowed, config, inserted,
                   deleted, donePages, interruptions>>

\* ------------------------------------------------- the one-shot strategies
\* delete_tickets(), lines 80-84
delete_tickets ==
    /\ pc = "delete_tickets"
    /\ store' = <<>>
    /\ deleted' = (deleted \/ store # <<>>)
    /\ state' = "Completed"
    /\ pc' = "return"
    /\ UNCHANGED <<next_id, file, runs, strategy, several, outcome, locals,
                   observed, config, inserted, donePages, interruptions>>

\* ------------------------------------------- regenerate_tokens_v3: the load
\* lines 193-194: open the checkpoint file and read it; a missing file
\* raises, and the bare except of line 200 passes
v3_open ==
    /\ pc = "v3_open"
    /\ IF file.exists
       THEN number' = file.text /\ pc' = "v3_parse"
       ELSE number' = number /\ pc' = "v3_setup"
    /\ UNCHANGED <<table, file, runs, strategy, several, outcome, state,
                   current_page, total_pages, total, i, page, chunk,
                   display_remain_time, observed, config, inserted, deleted,
                   donePages, interruptions>>

\* line 195: current_page = int(number); a ValueError is passed over by the
\* bare except, leaving current_page at 1 and the file as it is
v3_parse ==
    /\ pc = "v3_parse"
    /\ LET p == ParseInt(number) IN
        IF p.ok
        THEN current_page' = p.val /\ pc' = "v3_clear"
        ELSE current_page' = current_page /\ pc' = "v3_setup"
    /\ UNCHANGED <<table, file, runs, strategy, several, outcome, state,
                   number, total_pages, total, i, page, chunk,
                   display_remain_time, observed, config, inserted, deleted,
                   donePages, interruptions>>

\* lines 198-199: the file is opened for writing and "" is written
v3_clear ==
    /\ pc = "v3_clear"
    /\ file' = Holding(<<>>)
    /\ pc' = "v3_setup"
    /\ UNCHANGED <<table, runs, strategy, several, outcome, state, locals,
                   observed, config, inserted, deleted, donePages,
                   interruptions>>

\* lines 191-202: a KeyboardInterrupt delivered while the load is under way
\* is caught by the bare except like any other exception, and passed over:
\* the run goes on with current_page and the file as they are at that moment
LoadPcs == {"v3_open", "v3_parse", "v3_clear"}

v3_load_interrupted ==
    /\ pc \in LoadPcs
    /\ cancelled' = TRUE
    /\ swallowed' = TRUE
    /\ pc' = "v3_setup"
    /\ UNCHANGED <<table, file, runs, strategy, several, outcome, state,
                   locals, startFile, fetched, batches, lines, fault, config,
                   inserted, deleted, donePages, interruptions>>

\* ------------------------------------------ regenerate_tokens_v3: the loop
\* lines 205-210: the queryset, the paginator, num_pages and the range
v3_setup ==
    /\ pc = "v3_setup"
    /\ total_pages' = num_pages(Len(store), per_page)
    /\ i' = current_page
    /\ pc' = "v3_loop"
    /\ UNCHANGED <<table, file, runs, strategy, several, outcome, state,
                   number, current_page, total, page, chunk,
                   display_remain_time, observed, config, inserted, deleted,
                   donePages, interruptions>>

\* lines 210-212: the next i of range(current_page, total_pages + 1), or the
\* end of the loop and of the function
v3_loop ==
    /\ pc = "v3_loop"
    /\ IF i <= total_pages
       THEN /\ current_page' = i
            /\ pc' = "v3_fetch"
            /\ state' = state
       ELSE /\ current_page' = current_page
            /\ pc' = "return"
            /\ state' = "Completed"
    /\ UNCHANGED <<table, file, runs, strategy, several, outcome, number,
                   total_pages, total, i, page, chunk, display_remain_time,
                   observed, config, inserted, deleted, donePages,
                   interruptions>>

\* the except clause of lines 243-247: the error is printed and
\* str(current_page) overwrites the checkpoint file

\* a handler that saves the loop variable instead of current_page
SavesLoopIndex == Str(i)

\* a handler that saves the page after the current one
SavesNextPage == Str(current_page + 1)

\* line 247: str(current_page)
checkpoint_text == Str(current_page)

Handler(at, kind) ==
    /\ file' = Holding(checkpoint_text)
    /\ state' = "Interrupted"
    /\ pc' = "return"
    /\ fault' = [pc |-> at, page |-> i]
    /\ cancelled' = (cancelled \/ kind = "cancel")
    /\ interruptions' = interruptions + 1

\* lines 214-215: paginator.page(i), which raises EmptyPage for i < 1
v3_fetch ==
    /\ pc = "v3_fetch"
    /\ IF page_raises(Len(store), i, per_page)
       THEN /\ Handler("EmptyPage", "error")
            /\ UNCHANGED <<page, chunk, fetched>>
       ELSE /\ page' = object_list(store, i, per_page)
            /\ chunk' = <<>>
            /\ fetched' = Append(fetched, i)
            /\ pc' = "v3_mutate"
            /\ UNCHANGED <<file, state, fault, cancelled, interruptions>>
    /\ UNCHANGED <<table, runs, strategy, several, outcome, number,
                   current_page, total_pages, total, i, display_remain_time,
                   startFile, batches, lines, swallowed, config, inserted,
                   deleted, donePages>>

\* ticket.token = uuid4(): a regenerated token
Regenerated(t) == [t EXCEPT !.token = 1]

\* lines 217-219: every ticket of the page gets a new token and joins chunk
v3_mutate ==
    /\ pc = "v3_mutate"
    /\ chunk' = [k \in 1..Len(page) |-> Regenerated(page[k])]
    /\ pc' = "v3_write"
    /\ UNCHANGED <<table, file, runs, strategy, several, outcome, state,
                   number, current_page, total_pages, total, i, page,
                   display_remain_time, observed, config, inserted, deleted,
                   donePages, interruptions>>

\* Ticket.objects.bulk_update(objs, ["token"]): the token of every row whose
\* id is in objs is overwritten, in one transaction
bulk_update(rows, objs) ==
    [k \in 1..Len(rows) |->
        IF \E j \in 1..Len(objs) : objs[j].id = rows[k].id
        THEN [rows[k] EXCEPT !.token =
                 objs[CHOOSE j \in 1..Len(objs) : objs[j].id = rows[k].id].token]
        ELSE rows[k]]

Ids(objs) == [k \in 1..Len(objs) |-> objs[k].id]

\* line 221
v3_write ==
    /\ pc = "v3_write"
    /\ store' = bulk_update(store, chunk)
    /\ batches' = Append(batches, [page |-> i, ids |-> Ids(chunk)])
    /\ donePages' = donePages \cup {i}
    /\ pc' = "v3_progress"
    /\ UNCHANGED <<next_id, file, runs, strategy, several, outcome, state, locals,
                   startFile, fetched, lines, cancelled, swallowed, fault,
                   config, inserted, deleted, interruptions>>

\* a display that shows the latest estimate
SmoothedLatest(shown, est) == est

\* the running minimum of lines 110-111, 163-164 and 228-229
Smoothed(shown, est) == IF est < shown THEN est ELSE shown

\* lines 224-241: the estimate, the smoothed display value, the progress
\* line; then the loop goes to its next i
v3_progress ==
    /\ pc = "v3_progress"
    /\ \E took \in Elapsed :
        LET estimated_remain_time == (total_pages - i + 1) * took IN
        /\ display_remain_time' = Smoothed(display_remain_time, estimated_remain_time)
        /\ lines' = Append(lines, [raw |-> estimated_remain_time,
                                   remain |-> display_remain_time',
                                   num |-> i, den |-> total_pages,
                                   took |-> took])
    /\ i' = i + 1
    /\ pc' = "v3_loop"
    /\ UNCHANGED <<table, file, runs, strategy, several, outcome, state,
                   number, current_page, total_pages, total, page, chunk,
                   startFile, fetched, batches, cancelled, swallowed, fault,
                   config, inserted, deleted, donePages, interruptions>>

\* lines 204-247: an exception or a KeyboardInterrupt raised anywhere inside
\* the try block is caught at line 243
BodyPcs == {"v3_setup", "v3_loop", "v3_fetch", "v3_mutate", "v3_write",
            "v3_progress"}

v3_except ==
    /\ pc \in BodyPcs
    /\ \E kind \in {"error", "cancel"} : Handler(pc, kind)
    /\ UNCHANGED <<table, runs, strategy, several, outcome, locals, startFile,
                   fetched, batches, lines, swallowed, config, inserted,
                   deleted, donePages>>

\* ------------------------------------------------------ insert_tickets_v2
\* [Ticket() for _ in range(n)]: unsaved objects, no id yet
Tickets(n) == [k \in 1..n |-> [id |-> 0, token |-> 0]]

\* bulk_create(data): the new rows get the next ids of the table
bulk_create(rows, n) ==
    rows \o [k \in 1..n |-> [id |-> next_id + k - 1, token |-> 0]]

\* insert_tickets(), lines 87-91: all the Tickets are built, then inserted
\* with one bulk_create
insert_tickets ==
    /\ pc = "insert_tickets"
    /\ store' = bulk_create(store, Len(Tickets(naive_count)))
    /\ next_id' = next_id + naive_count
    /\ inserted' = TRUE
    /\ state' = "Completed"
    /\ pc' = "return"
    /\ UNCHANGED <<file, runs, strategy, several, outcome, locals, observed,
                   config, deleted, donePages, interruptions>>

\* lines 99-103: the next i of range(split_parts); data, a window of new
\* Tickets, is built (data is kept in chunk)
ins_loop ==
    /\ pc = "ins_loop"
    /\ IF i < split_parts
       THEN /\ chunk' = Tickets(per_page)
            /\ pc' = "ins_create"
            /\ state' = state
       ELSE /\ pc' = "return"
            /\ state' = "Completed"
            /\ chunk' = chunk
    /\ UNCHANGED <<table, file, runs, strategy, several, outcome, number,
                   current_page, total_pages, total, i, page,
                   display_remain_time, observed, config, inserted, deleted,
                   donePages, interruptions>>

\* line 104
ins_create ==
    /\ pc = "ins_create"
    /\ store' = bulk_create(store, Len(chunk))
    /\ next_id' = next_id + Len(chunk)
    /\ batches' = Append(batches,
                         [page |-> i + 1, ids |-> FromTo(next_id, next_id + Len(chunk) - 1)])
    /\ inserted' = TRUE
    /\ pc' = "ins_progress"
    /\ UNCHANGED <<file, runs, strategy, several, outcome, state, locals,
                   startFile, fetched, lines, cancelled, swallowed, fault,
                   config, deleted, donePages, interruptions>>

\* lines 106-123
ins_progress ==
    /\ pc = "ins_progress"
    /\ \E took \in Elapsed :
        LET estimated_remain_time == (split_parts - i) * took IN
        /\ display_remain_time' = Smoothed(display_remain_time, estimated_remain_time)
        /\ lines' = Append(lines, [raw |-> estimated_remain_time,
                                   remain |-> display_remain_time',
                                   num |-> i + 1, den |-> split_parts,
                                   took |-> took])
    /\ i' = i + 1
    /\ pc' = "ins_loop"
    /\ UNCHANGED <<table, file, runs, strategy, several, outcome, state,
                   number, current_page, total_pages, total, page, chunk,
                   startFile, fetched, batches, cancelled, swallowed, fault,
                   config, inserted, deleted, donePages, interruptions>>

\* ------------------------------------------------------ regenerate_tokens
\* regenerate_tokens(), lines 126-133: every record is loaded and mutated,
\* then all of them are written with one bulk_update
regenerate_tokens ==
    /\ pc = "regenerate_tokens"
    /\ LET tickets == [k \in 1..Len(store) |-> Regenerated(store[k])] IN
        /\ store' = bulk_update(store, tickets)
        /\ batches' = Append(batches, [page |-> 0, ids |-> Ids(tickets)])
    /\ state' = "Completed"
    /\ pc' = "return"
    /\ UNCHANGED <<next_id, file, runs, strategy, several, outcome, locals,
                   startFile, fetched, lines, cancelled, swallowed, fault,
                   config, inserted, deleted, donePages, interruptions>>

\* --------------------------------------------------- regenerate_tokens_v2
\* The estimate of line 161 is (total - i) / chunk_size * took, a fraction:
\* in this strategy display_remain_time and the estimates are kept in units
\* of 1/chunk_size second, so that they stay whole numbers.

\* a buffer that is never emptied
StaleChunk == chunk

\* chunk = [], lines 145 and 157
empty_chunk == <<>>

\* a flush test on the record's index instead of the count of records
ChunkFullOffByOne(n, size) == (n - 1) % size = 0

\* line 154, with n = i + 1: the n-th record fills the chunk
chunk_full(n, size) == n % size = 0

\* lines 139-145
v2_setup ==
    /\ pc = "v2_setup"
    /\ total' = Len(store)
    /\ display_remain_time' = InitialDisplay * per_page
    /\ chunk' = empty_chunk
    /\ i' = 0
    /\ pc' = "v2_next"
    /\ UNCHANGED <<table, file, runs, strategy, several, outcome, state,
                   number, current_page, total_pages, page, observed, config,
                   inserted, deleted, donePages, interruptions>>

\* lines 146-154: the next record of the cursor gets a new token and joins
\* chunk; after the loop, line 179
v2_next ==
    /\ pc = "v2_next"
    /\ IF i < Len(store)
       THEN /\ chunk' = Append(chunk, Regenerated(store[i + 1]))
            /\ IF chunk_full(i + 1, per_page)
               THEN pc' = "v2_flush" /\ i' = i
               ELSE pc' = "v2_next" /\ i' = i + 1
            /\ state' = state
       ELSE /\ chunk' = chunk
            /\ i' = i
            /\ IF chunk # <<>>
               THEN pc' = "v2_tail" /\ state' = state
               ELSE pc' = "return" /\ state' = "Completed"
    /\ UNCHANGED <<table, file, runs, strategy, several, outcome, number,
                   current_page, total_pages, total, page,
                   display_remain_time, observed, config, inserted, deleted,
                   donePages, interruptions>>

\* lines 156-157
v2_flush ==
    /\ pc = "v2_flush"
    /\ store' = bulk_update(store, chunk)
    /\ batches' = Append(batches, [page |-> 0, ids |-> Ids(chunk)])
    /\ chunk' = empty_chunk
    /\ pc' = "v2_progress"
    /\ UNCHANGED <<next_id, file, runs, strategy, several, outcome, state, number,
                   current_page, total_pages, total, i, page,
                   display_remain_time, startFile, fetched, lines, cancelled,
                   swallowed, fault, config, inserted, deleted, donePages,
                   interruptions>>

\* lines 159-176
v2_progress ==
    /\ pc = "v2_progress"
    /\ \E took \in Elapsed :
        LET estimated_remain_time == (total - i) * took IN
        /\ display_remain_time' = Smoothed(display_remain_time, estimated_remain_time)
        /\ lines' = Append(lines, [raw |-> estimated_remain_time,
                                   remain |-> display_remain_time',
                                   num |-> i + 1, den |-> total,
                                   took |-> took])
    /\ i' = i + 1
    /\ pc' = "v2_next"
    /\ UNCHANGED <<table, file, runs, strategy, several, outcome, state,
                   number, current_page, total_pages, total, page, chunk,
                   startFile, fetched, batches, cancelled, swallowed, fault,
                   config, inserted, deleted, donePages, interruptions>>

\* lines 178-180: the records left over after the loop
v2_tail ==
    /\ pc = "v2_tail"
    /\ store' = bulk_update(store, chunk)
    /\ batches' = Append(batches, [page |-> 0, ids |-> Ids(chunk)])
    /\ state' = "Completed"
    /\ pc' = "return"
    /\ UNCHANGED <<next_id, file, runs, strategy, several, outcome, locals, startFile,
                   fetched, lines, cancelled, swallowed, fault, config,
                   inserted, deleted, donePages, interruptions>>

\* ------------------------------------------------------------------- spec
Next ==
    \/ Invoke
    \/ Report
    \/ propagate
    \/ delete_tickets
    \/ insert_tickets
    \/ regenerate_tokens
    \/ ins_loop
    \/ ins_create
    \/ ins_progress
    \/ v2_setup
    \/ v2_next
    \/ v2_flush
    \/ v2_progress
    \/ v2_tail
    \/ v3_open
    \/ v3_parse
    \/ v3_clear
    \/ v3_load_interrupted
    \/ v3_setup
    \/ v3_loop
    \/ v3_fetch
    \/ v3_mutate
    \/ v3_write
    \/ v3_progress
    \/ v3_except

Spec == Init /\ [][Next]_vars

\* ------------------------------------------------------------ vocabulary
Paginated == strategy = "regenerate3"
Completed == state = "Completed"
Interrupted == state = "Interrupted"

\* Checkpoint Store.load(): a value, or none for a missing or unparsable file
Loads(f) == f.exists /\ ParseInt(f.text).ok
Loaded(f) == ParseInt(f.text).val

LastPage == num_pages(Len(store), per_page)
CeilDiv(a, b) == 0 - ((0 - a) \div b)
PagesOf(bs) == [k \in 1..Len(bs) |-> bs[k].page]

RECURSIVE Concat(_)
Concat(bs) == IF bs = <<>> THEN <<>> ELSE bs[1].ids \o Concat(Tail(bs))

RECURSIVE MinRaw(_, _)
MinRaw(ls, j) == IF j = 1 THEN ls[1].raw ELSE Min(MinRaw(ls, j - 1), ls[j].raw)

\* the sentinel in the units the strategy keeps its estimates in
Sentinel == IF strategy = "regenerate2" THEN InitialDisplay * per_page
            ELSE InitialDisplay

\* a text with no digit in it: empty, or non-numeric
NonNumeric(t) == \A k \in 1..Len(t) : ~IsDigit(t[k])

\* the except clause caught an exception raised from outside (an error of
\* the store, a cancellation), not the EmptyPage of a page number below 1
FaultFromOutside == fault.pc \in BodyPcs

\* ---------------------------------------------------------------- claims

\* C1: starting from an absent checkpoint and an unchanged record set, when
\* an update-paginated invocation reaches Completed after any number of
\* interrupted ones, every page from 1 to the last has had its bulk update
\* applied at least once and every record has a regenerated token.
C1_NoWindowSkipped ==
    (Paginated /\ Completed /\ initFile = Absent /\ ~inserted /\ ~deleted) =>
        /\ \A w \in 1..LastPage : w \in donePages
        /\ \A k \in 1..Len(store) : store[k].token = 1

\* two invocations were interrupted; the third resumes from the checkpoint
\* 2 the second one left, and completes
C1_Witness ==
    /\ Paginated /\ Completed /\ initFile = Absent /\ ~inserted /\ ~deleted
    /\ runs = 3 /\ interruptions = 2
    /\ startFile = Holding(<<"2">>)
    /\ fetched = <<2, 3>>
    /\ Len(store) = 3

\* C2: an exception raised while window k is being fetched, mutated or
\* written leaves the run Interrupted with the checkpoint holding exactly k,
\* and an invocation that starts from the checkpoint k such an interruption
\* left (there was no checkpoint file at first) and reaches Completed has
\* processed exactly the windows k, k+1, ..., last, in order.
C2_ResumeAtCheckpoint ==
    /\ (Paginated /\ Interrupted
           /\ fault.pc \in {"v3_fetch", "v3_mutate", "v3_write"}) =>
          file = Holding(Str(fault.page))
    /\ (Paginated /\ Completed /\ initFile = Absent /\ ~inserted /\ ~deleted
           /\ Loads(startFile) /\ Loaded(startFile) \in 1..LastPage) =>
          PagesOf(batches) = FromTo(Loaded(startFile), LastPage)

\* C3: after an update-paginated run has reached Completed, loading the
\* checkpoint returns none.
C3_CheckpointCleared ==
    (Paginated /\ Completed) => ~Loads(file)

C5_CancellationInterrupts ==
    (Paginated /\ cancelled) => (Interrupted /\ Loads(file))

\* C6: when an update-paginated run is interrupted (by one exception or
\* cancellation, caught at line 243) after window k's bulk update has been
\* applied, k not being the last window, the checkpoint holds k+1.
C6_CheckpointAfterCompletedWindow ==
    (Paginated /\ Interrupted /\ FaultFromOutside /\ ~swallowed
        /\ batches # <<>>
        /\ batches[Len(batches)].page < total_pages) =>
        file = Holding(Str(batches[Len(batches)].page + 1))

\* C7: a checkpoint file that exists but does not parse as an integer is
\* treated as absent: the load does not fail, the run starts at the first
\* window (it fetches pages 1, 2, ... in order), and a run that reaches
\* Completed has processed every window.
C7_CorruptCheckpointIsAbsent ==
    (Paginated /\ startFile.exists /\ NonNumeric(startFile.text)) =>
        /\ pc \in BodyPcs => current_page >= 1
        /\ pc = "v3_setup" => current_page = 1
        /\ fetched = FromTo(1, Len(fetched))
        /\ Interrupted => FaultFromOutside
        /\ Completed => /\ PagesOf(batches) = FromTo(1, LastPage)
                        /\ \A k \in 1..Len(store) : store[k].token = 1

\* the file held "x" and the run went through all three windows
C7_Witness ==
    /\ Paginated /\ Completed
    /\ startFile = Holding(<<"x">>)
    /\ Len(batches) = 3

\* C8 as stated: on every progress line of a chunked strategy the displayed
\* remaining time is the minimum of the raw estimates so far, and it is not
\* above the one on the line before.
C8_RunningMinimum ==
    \A j \in 1..Len(lines) :
        /\ lines[j].remain = MinRaw(lines, j)
        /\ j > 1 => lines[j].remain <= lines[j - 1].remain

\* C8 amended: on every progress line of a chunked strategy the displayed
\* remaining time is the smaller of 999999 seconds and the minimum of the raw
\* estimates so far, and it is not above the one on the line before.
C8_CappedRunningMinimum ==
    \A j \in 1..Len(lines) :
        /\ lines[j].remain = Min(Sentinel, MinRaw(lines, j))
        /\ j > 1 => lines[j].remain <= lines[j - 1].remain

\* the raw estimate rises from one window to the next and the displayed
\* value holds
C8_Witness ==
    \E j \in 2..Len(lines) :
        /\ lines[j].raw > lines[j - 1].raw
        /\ lines[j].remain = lines[j - 1].remain
        /\ lines[j].remain < Sentinel

C10_BeyondLastWindow ==
    (Paginated /\ Completed /\ Loads(startFile)
        /\ Loaded(startFile) > LastPage /\ current_page = Loaded(startFile)) =>
        /\ fetched = <<>>
        /\ batches = <<>>
        /\ file = Holding(<<>>)

\* the strategies that keep no checkpoint
NonResumable == Strategies \ {"regenerate3"}

\* an invocation of the command has ended
Ended == pc = "Idle" /\ runs > 0

\* an exception left a strategy that does not catch it
Propagated == fault.pc = "propagated"

\* C11 as stated: an invocation that ends Completed ends with status 0, and
\* an update-paginated invocation that ends Interrupted ends with a non-zero
\* status and without the completion summary.
C11_InterruptedExitsNonZero ==
    Ended =>
        /\ Completed => exit_status = 0
        /\ (Paginated /\ Interrupted) => (exit_status # 0 /\ ~summary)

\* C12 as stated: whatever flags are given, an invocation in which no
\* exception leaves the strategy has executed one of the six strategies and
\* has then reported the memory and time totals.
C12_OneStrategyThenTotals ==
    (Ended /\ ~Propagated) => (strategy \in Strategies /\ summary)

\* C13: during and after an invocation of a strategy other than
\* update-paginated the checkpoint file is what it was when the invocation
\* began and nothing has been read from it, also when an exception has left
\* the strategy; such an exception adds no checkpoint save.
C13_CheckpointUntouched ==
    (strategy \in NonResumable) =>
        /\ file = startFile
        /\ number = <<>>
        /\ Propagated => (state = "Aborted" /\ exit_status = 1)

\* an interrupted update-paginated run left the checkpoint 2; a later
\* update-cursor run wrote a window and was then left by an exception
C13_Witness ==
    /\ strategy = "regenerate2" /\ state = "Aborted" /\ Propagated
    /\ batches # <<>>
    /\ startFile = Holding(<<"2">>)
    /\ file = Holding(<<"2">>)
    /\ interruptions = 1

\* the strategies that work window by window
Chunked == {"insert2", "regenerate2", "regenerate3"}

\* where a window begins, where its write is issued, where its progress is
\* computed and its line emitted
LoopHeads == {"ins_loop", "v2_next", "v3_loop"}
WritePcs == {"ins_create", "v2_flush", "v2_tail", "v3_write"}
ProgressPcs == {"ins_progress", "v2_progress", "v3_progress"}

\* C14 as stated: in a chunked strategy the records of a window are all
\* mutated when its write is issued, the write is done when its progress
\* line is computed and emitted, and every window written, a final shorter
\* one included, has its progress line before the next window begins or the
\* run completes.
C14_ProgressLinePerWindow ==
    (strategy \in Chunked) =>
        /\ (pc \in WritePcs /\ strategy # "insert2") =>
               \A k \in 1..Len(chunk) : chunk[k].token = 1
        /\ pc \in ProgressPcs => Len(batches) = Len(lines) + 1
        /\ (pc \in LoopHeads \/ Completed) => Len(lines) = Len(batches)

\* the number of windows of the whole run, and the index, among them, of
\* the window the j-th progress line of this invocation follows
TotalWindows == CASE strategy = "insert2" -> split_parts
                  [] strategy = "regenerate2" -> CeilDiv(total, per_page)
                  [] strategy = "regenerate3" -> total_pages
WindowIndex(j) == IF Paginated THEN batches[j].page ELSE j

\* C15 as stated: the j-th progress line of a chunked strategy shows
\* completed_windows / total_windows (as num / den), completed_windows being
\* the index in the whole record set of the window just finished; the
\* percentages never decrease, and the last line of a Completed run shows
\* 100.
C15_PercentOfWindows ==
    (strategy \in Chunked) =>
        /\ \A j \in 1..Len(lines) :
            /\ j <= Len(batches)
            /\ lines[j].num * TotalWindows = WindowIndex(j) * lines[j].den
        /\ \A j, k \in 1..Len(lines) :
            j < k => lines[j].num * lines[k].den <= lines[k].num * lines[j].den
        /\ (Completed /\ lines # <<>>) =>
            lines[Len(lines)].num = lines[Len(lines)].den

\* the estimates of update-cursor are kept in units of 1/chunk_size second
Unit == IF strategy = "regenerate2" THEN per_page ELSE 1

\* C16 as stated: the raw estimate on the j-th progress line is the number
\* of windows still to be processed after the window just finished, times
\* the time that window took; after the last window it is 0.
C16_RemainingTimesElapsed ==
    (strategy \in Chunked) =>
        \A j \in 1..Len(lines) :
            /\ j <= Len(batches)
            /\ lines[j].raw =
                   Unit * (TotalWindows - WindowIndex(j)) * lines[j].took

\* C17: an update-cursor run that reaches Completed over N records has
\* issued exactly ceil(N / W) bulk updates, none for N = 0; their records,
\* in the order written, are the records of the table in cursor order, each
\* one once; every update but the last has W records, and when N is not a
\* multiple of W the last one has the N mod W records left over.
C17_CursorWindows ==
    (strategy = "regenerate2" /\ Completed) =>
        LET N == Len(store)
            W == per_page
        IN  /\ Len(batches) = CeilDiv(N, W)
            /\ N = 0 => batches = <<>>
            /\ Concat(batches) = Ids(store)
            /\ \A j \in 1..(Len(batches) - 1) : Len(batches[j].ids) = W
            /\ N % W # 0 => Len(batches[Len(batches)].ids) = N % W
            /\ \A k \in 1..N : store[k].token = 1

\* three records in windows of two: a full window, then the one left over
C17_Witness ==
    /\ strategy = "regenerate2" /\ Completed
    /\ Len(store) = 3 /\ per_page = 2
    /\ Len(batches) = 2
    /\ Len(batches[2].ids) = 1

\* the ids written by the bulk writes of this invocation
Written == {Concat(batches)[k] : k \in 1..Len(Concat(batches))}

\* where the buffer is being filled or is about to be written
FillPcs == {"v2_next", "v3_mutate"} \cup WritePcs

\* C18: in a chunked strategy the buffer of records awaiting their write,
\* and the page fetched, never hold more than W records; while a window is
\* being collected or written the buffer holds no record of a window
\* already written; and a window is fetched only when every window fetched
\* before it has been written.
C18_BoundedBuffer ==
    (strategy \in Chunked) =>
        /\ Len(chunk) <= per_page
        /\ Len(page) <= per_page
        /\ pc \in FillPcs => \A k \in 1..Len(chunk) : chunk[k].id \notin Written
        /\ pc \in {"v3_loop", "v3_fetch"} => Len(fetched) = Len(batches)
        /\ pc \in {"v3_mutate", "v3_write"} => Len(fetched) = Len(batches) + 1
        /\ pc = "v2_next" => Len(Concat(batches)) + Len(chunk) = i

\* update-cursor, windows of two: the first window is written, and the
\* buffer holds only the third record
C18_Witness ==
    /\ strategy = "regenerate2" /\ pc = "v2_tail"
    /\ per_page = 2
    /\ Len(batches) = 1
    /\ Ids(chunk) = <<3>>

\* C19: when there was no checkpoint file at first and the record set has
\* not changed, the checkpoint file is at every point absent, or empty, or
\* exactly the decimal digits of one integer p with
\* 1 <= p <= max(1, ceil(N / W)).
C19_CheckpointWellFormed ==
    (initFile = Absent /\ ~inserted /\ ~deleted) =>
        \/ file = Absent
        \/ file = Holding(<<>>)
        \/ \E p \in 1..Max(1, CeilDiv(Len(store), per_page)) :
               file = Holding(Str(p))

\* two update-paginated invocations were interrupted, the second one in the
\* last of two windows; update-cursor ran in between or not
C19_Witness ==
    /\ initFile = Absent /\ ~inserted /\ ~deleted
    /\ interruptions = 2
    /\ Paginated /\ Interrupted /\ pc = "Idle"
    /\ LastPage = 2
    /\ file = Holding(<<"2">>)

\* C20 as stated: an update-paginated run that starts with a checkpoint
\* file holding an integer below 1 empties the file, fetches and writes no
\* window, does not reach Completed, and ends Interrupted with the same
\* integer written back.
C20_BelowOneNeverProgresses ==
    (Paginated /\ Loads(startFile) /\ Loaded(startFile) < 1) =>
        /\ fetched = <<>>
        /\ batches = <<>>
        /\ ~Completed
        /\ pc \in BodyPcs => file = Holding(<<>>)
        /\ pc \in {"return", "Idle"} =>
            /\ Interrupted
            /\ Loads(file)
            /\ Loaded(file) = Loaded(startFile)

====
